---- MODULE Spec2Model ----
(***************************************************************************)
(* A model of balaio: the checkout daemon (balaio/checkout.py), the        *)
(* checkpoint Notifier (balaio/lib/notifier.py) and the Setup/TearDown     *)
(* pipes of the validation pipeline (balaio/validator.py).                 *)
(*                                                                         *)
(* The three programs run as separate processes, so each has its own       *)
(* specification over the shared variable list:                            *)
(*   Spec          the checkout daemon's polling loop                      *)
(*   SpecNotifier  calls of tell/start/end on the Notifiers of one Attempt *)
(*   SpecValidator Setup -> TearDown runs over the incoming Attempts       *)
(***************************************************************************)
EXTENDS Integers, Sequences, FiniteSets, TLC

VARIABLES
    \* ---- checkout daemon (checkout.py) ----
    db,          \* committed Attempt rows: the three checkout columns
    sess,        \* the same rows as held (and mutated) by the session
    item,        \* the Attempt whose procedure ran last in this cycle (0: none)
    pkg,         \* the xml / pdf members of that Attempt's package
    trace,       \* the remote calls that procedure made, in order
    fault,       \* what was raised inside that procedure's try block
    tally,       \* per Attempt: the uploads and posts made for it in this cycle
    pc,          \* position of main(): "poll", "batch", "sleep", "crashed"
    batch,       \* attempts_checkout, the list returned by the query
    idx,         \* position of the for loop in batch
    result,      \* per Attempt: how its procedure ended in this cycle
    commits,     \* transaction.commit() calls that succeeded
    aborts,      \* transaction.abort() calls
    cycle,       \* polling cycles started so far
    running,     \* the Attempts whose procedure has been called and has not
                 \* returned yet
    \* ---- Notifier (lib/notifier.py), for one Attempt ----
    manager_integration,  \* config: manager / notifications
    cps,         \* the Attempt's Checkpoint rows held by the session
    notifier,    \* the Checkpoint (index in cps) the Notifier in hand is
                 \* bound to; 0: no Notifier yet
    checkin_uri, \* attempt.checkin_uri
    dirty,       \* the session holds changes that no commit has written
    calls,       \* the registry calls made by the last operation, in order
    op,          \* the last operation: what it was and how it returned
    nops,        \* operations called so far
    \* ---- validation pipeline (validator.py): Setup -> TearDown ----
    vpc,         \* "idle" (waiting for a message), "setup" (Setup returned
                 \* its item, TearDown is next), "raised" (the run died)
    attempt,     \* the Attempt in the pipeline: its ISSNs and is_valid
    journal_data,\* the journal_data of the triple Setup returned
    lookups,     \* the registry lookups of the last Setup, in order
    ret,         \* how the last Setup ended
    locked,      \* the Attempts whose package lock is held
    failed,      \* the Attempts whose package was marked as failed
    nitems,      \* Attempts received so far
    verdict      \* FundingGroupValidationPipe.validate on the item in the
                 \* pipeline: what the package held and what came back

None == "None"
NoKey == <<>>      \* a key that uri_dict does not hold

\* ------------------------------------------------------------------ bounds
NAttempts == 2
MaxCycles == 2
MaxOps == 4
MaxItems == 2
MaxPackages == 2

Attempts == 1..NAttempts

\* Packages: the number of members get_fps('xml') and get_fps('pdf') yield.
PkgShapes ==
    { [xml |-> 1, pdf |-> 1], [xml |-> 0, pdf |-> 1],
      [xml |-> 1, pdf |-> 0], [xml |-> 2, pdf |-> 1] }

\* Where the environment makes a step of one item's procedure raise.
\* "interrupt" is a BaseException that is no Exception (KeyboardInterrupt).
FailPoints ==
    { "none", "timestamp", "connect", "send_xml", "send_pdf", "send_img",
      "issues_filter", "articles_post", "interrupt" }

\* How many issues client.issues.filter(**dict_filter) yields.
IssueCounts == {0, 1, 2}

\* The environment of one procedure: where it fails, and the issues found
\* (which only matter when issues.filter is reached and answers).
ProcedureInputs ==
    { <<f, 1>> : f \in FailPoints }
      \cup { <<f, n>> : f \in {"none", "articles_post"}, n \in IssueCounts }

\* ------------------------------------------------------------ checkout.py
FILES_EXTENSION == <<"xml", "pdf">>

Event(call, arg, ok) == [call |-> call, arg |-> arg, ok |-> ok]

\* The locator static.send returns for the i-th member of extension ext of
\* Attempt a's package.
Locator(a, ext, i) == <<a, ext, i>>

\* The sends of the inner loop "for static_file in get_fps(ext)": n members,
\* the first send raising when the storage backend fails for this extension.
SendMembers(a, ext, n, fails) ==
    IF n = 0 THEN <<>>
    ELSE IF fails THEN << Event("send", Locator(a, ext, 1), FALSE) >>
    ELSE [ i \in 1..n |-> Event("send", Locator(a, ext, i), TRUE) ]

Raised(evs) == \E i \in 1..Len(evs) : ~evs[i].ok

\* uri_dict[ext] = uri, assigned once per member: the last member's locator
\* stays.  An extension with no member gets no key.
UriOf(evs) == IF evs = <<>> THEN NoKey ELSE evs[Len(evs)].arg

\* upload_static_files(package_analyzer, conn_static):
\*   [raised, trace, uri_dict]; uri_dict maps "xml"/"pdf"/"img" to a locator,
\*   NoKey standing for a missing key.
upload_static_files(a, shape, failAt) ==
    IF failAt = "connect"
    THEN [raised |-> TRUE, trace |-> << Event("connect", a, FALSE) >>,
          uri_dict |-> [e \in {"xml", "pdf", "img"} |-> NoKey]]
    ELSE
    LET xml == SendMembers(a, FILES_EXTENSION[1], shape.xml, failAt = "send_xml")
        pdf == IF Raised(xml) THEN <<>>
               ELSE SendMembers(a, FILES_EXTENSION[2], shape.pdf, failAt = "send_pdf")
        img == IF Raised(xml) \/ Raised(pdf) THEN <<>>
               ELSE SendMembers(a, "img", 1, failAt = "send_img")
        evs == xml \o pdf \o img
    IN  [raised   |-> Raised(evs),
         trace    |-> evs,
         uri_dict |-> [e \in {"xml", "pdf", "img"} |->
                          IF Raised(evs) THEN NoKey
                          ELSE IF e = "xml" THEN UriOf(xml)
                          ELSE IF e = "pdf" THEN UriOf(pdf)
                          ELSE UriOf(img)]]

\* Faulty variant: a missing key reads as a value.
HasKey_always(uri_dict, k) == TRUE

\* uri_dict['xml'], uri_dict['pdf']: the subscription raises KeyError when
\* upload_static_files assigned no such key.
HasKey(uri_dict, k) == uri_dict[k] # NoKey

\* upload_meta_front(package_analyzer, client, uri_dict): [raised, trace].
\*   next(client.issues.filter(...)) raises StopIteration on an empty result
\*   and takes the first issue otherwise; uri_dict['xml'] / uri_dict['pdf']
\*   raise KeyError when the package had no such member.
upload_meta_front(a, uri_dict, failAt, nIssues) ==
    LET filter == IF failAt = "issues_filter"
                  THEN Event("issues.filter", 0, FALSE)
                  ELSE Event("issues.filter", nIssues, TRUE)
        data   == [issue      |-> <<"issue", 1>>,
                   xml_url    |-> uri_dict["xml"],
                   pdf_url    |-> uri_dict["pdf"],
                   images_url |-> uri_dict["img"]]
    IN  IF ~filter.ok \/ nIssues = 0
        THEN [raised |-> TRUE, trace |-> << filter >>]
        ELSE IF ~HasKey(uri_dict, "xml") \/ ~HasKey(uri_dict, "pdf")
        THEN [raised |-> TRUE, trace |-> << filter >>]
        ELSE [raised |-> failAt = "articles_post",
              trace  |-> << filter,
                            Event("articles.post", data, failAt # "articles_post") >>]

\* Faulty variant: the handler lets the exception go on.
ExceptException_reraise(kind) == "propagated"

\* What "except Exception" of checkout_procedure_by_attempt does with an
\* exception raised in the try block: it logs it and the function returns.
ExceptException(kind) == IF kind = "Exception" THEN "caught" ELSE "propagated"

\* Faulty variant: the queued flag is left as it was.
ClearQueued_forgotten(row) == row

\* attempt.queued_checkout = False, the last statement of the try block.
ClearQueued(row) == [row EXCEPT !.queued_checkout = FALSE]

\* Faulty variant: the start of the checkout is not recorded.
SetStarted_skipped(row, now) == row

\* attempt.checkout_started_at = datetime.now()
SetStarted(row, now) == [row EXCEPT !.checkout_started_at = now]

\* checkout_procedure_by_attempt(item): the Attempt row as the procedure
\* leaves it, the remote calls it made, and how it ended:
\*   "ok" (try block completed), "caught" (an Exception was logged),
\*   "propagated" (a non-Exception left the function).
checkout_procedure_by_attempt(a, row, shape, failAt, nIssues, now) ==
    IF failAt = "timestamp"
    THEN [row |-> row, trace |-> <<>>, fault |-> "Exception",
          ended |-> ExceptException("Exception")]
    ELSE
    LET started == SetStarted(row, now)
    IN  IF failAt = "interrupt"
        THEN [row |-> started, trace |-> <<>>, fault |-> "KeyboardInterrupt",
              ended |-> ExceptException("KeyboardInterrupt")]
        ELSE
        LET up == upload_static_files(a, shape, failAt)
        IN  IF up.raised
            THEN [row |-> started, trace |-> up.trace, fault |-> "Exception",
                  ended |-> ExceptException("Exception")]
            ELSE
            LET meta == upload_meta_front(a, up.uri_dict, failAt, nIssues)
            IN  IF meta.raised
                THEN [row |-> started, trace |-> up.trace \o meta.trace,
                      fault |-> "Exception",
                      ended |-> ExceptException("Exception")]
                ELSE [row   |-> ClearQueued(started),
                      trace |-> up.trace \o meta.trace,
                      fault |-> "none",
                      ended |-> "ok"]

\* datetime.now() as read during polling cycle c.
Now(c) == ToString(c)

\* Faulty variant: the query does not look at checkout_started_at.
Eligible_started_too(rows) ==
    { a \in Attempts : rows[a].proceed_to_checkout }

\* session.query(models.Attempt).filter_by(proceed_to_checkout=True,
\*                                         checkout_started_at=None)
Eligible(rows) ==
    { a \in Attempts : rows[a].proceed_to_checkout
                       /\ rows[a].checkout_started_at = None }

\* .all(): the matching rows as a list, here in primary-key order.
RECURSIVE All(_)
All(S) ==
    IF S = {} THEN <<>>
    ELSE LET least == CHOOSE a \in S : \A b \in S : a <= b
         IN  << least >> \o All(S \ {least})

\* No package: no procedure has run in this cycle.
Unread == [xml |-> -1, pdf |-> -1]

Count(evs, call, okOnly) ==
    Cardinality({ i \in 1..Len(evs) :
                    evs[i].call = call /\ (okOnly => evs[i].ok) })

\* What one procedure's calls add to its Attempt's tally:
\*   uploads   upload_static_files was entered (the storage was contacted)
\*   uploaded  the images archive, the last upload, was stored
\*   posts     articles.post calls issued
\*   posted    articles.post calls that succeeded
NoTally == [uploads |-> 0, uploaded |-> 0, posts |-> 0, posted |-> 0]
Tally(t, evs) ==
    [uploads  |-> t.uploads + (IF Count(evs, "send", FALSE)
                                  + Count(evs, "connect", FALSE) > 0
                               THEN 1 ELSE 0),
     uploaded |-> t.uploaded + (IF \E i \in 1..Len(evs) :
                                      /\ evs[i].call = "send" /\ evs[i].ok
                                      /\ evs[i].arg[2] = "img"
                                THEN 1 ELSE 0),
     posts    |-> t.posts + Count(evs, "articles.post", FALSE),
     posted   |-> t.posted + Count(evs, "articles.post", TRUE)]

NewRow(p) ==
    [proceed_to_checkout |-> p, queued_checkout |-> FALSE,
     checkout_started_at |-> None]

InitCheckout ==
    /\ db \in [Attempts -> {NewRow(p) : p \in BOOLEAN}]
    /\ sess = db
    /\ item = 0
    /\ pkg = Unread
    /\ trace = <<>>
    /\ fault = "none"
    /\ tally = [a \in Attempts |-> NoTally]
    /\ pc = "poll"
    /\ batch = <<>>
    /\ idx = 1
    /\ result = [a \in Attempts |-> "none"]
    /\ commits = 0
    /\ aborts = 0
    /\ cycle = 1
    /\ running = {}

\* main(), lines 189-193 and 204: the query of one cycle; with nothing
\* eligible the loop goes to sleep.
Poll ==
    /\ pc = "poll"
    /\ idx' = 1
    /\ IF Eligible(sess) = {}
       THEN /\ batch' = <<>>
            /\ pc' = "sleep"
       ELSE /\ batch' = All(Eligible(sess))
            /\ pc' = "batch"
    /\ UNCHANGED <<db, sess, item, pkg, trace, fault, tally, result, commits,
                   aborts, cycle, running>>

\* Faulty variant: the item is handed to the procedure unmarked.
MarkQueued_skipped(row) == row

\* attempt.queued_checkout=True, the first statement of the loop body.
MarkQueued(row) == [row EXCEPT !.queued_checkout = TRUE]

\* Faulty variant: the session keeps what the batch wrote.
transaction_abort_keeps(d, s) == s

\* transaction.abort(): the session's rows are what the database holds.
transaction_abort(d, s) == d

\* Faulty variant: the commit does not wait for the end of the loop.
LoopDone_early(i, b) == TRUE

\* "for attempt in attempts_checkout" is exhausted: the statement after the
\* loop, transaction.commit(), is reached.
LoopDone(i, b) == i > Len(b)

\* Faulty variant: the loop takes the next item while a call is running.
LoopFree_always(r) == TRUE

\* The for loop is at the head of an iteration: the call of the iteration
\* before, an ordinary function call made by the loop itself, has returned.
LoopFree(r) == r = {}

\* main(), lines 195-197: the head of one iteration of the for loop: the
\* item is marked and checkout_procedure_by_attempt is called with it.
Dispatch ==
    /\ pc = "batch"
    /\ idx <= Len(batch)
    /\ LoopFree(running)
    /\ running' = running \cup {batch[idx]}
    /\ sess' = [sess EXCEPT ![batch[idx]] = MarkQueued(@)]
    /\ UNCHANGED <<db, item, pkg, trace, fault, tally, pc, batch, idx, result,
                   commits, aborts, cycle>>

\* main(), lines 197 and 200-202: the call of one iteration runs to its end.
\* An exception leaving the procedure reaches the bare except: abort and
\* raise.
ProcessItem ==
    /\ pc = "batch"
    /\ idx <= Len(batch)
    /\ batch[idx] \in running
    /\ running' = running \ {batch[idx]}
    /\ \E in \in ProcedureInputs, shape \in PkgShapes :
        LET a      == batch[idx]
            queued == sess[a]
            r      == checkout_procedure_by_attempt(a, queued, shape, in[1],
                                                    in[2], Now(cycle))
        IN  /\ item' = a
            /\ pkg' = shape
            /\ trace' = r.trace
            /\ fault' = r.fault
            /\ tally' = [tally EXCEPT ![a] = Tally(tally[a], r.trace)]
            /\ result' = [result EXCEPT ![a] = r.ended]
            /\ IF r.ended = "propagated"
               THEN /\ sess' = transaction_abort(db, sess)
                    /\ aborts' = aborts + 1
                    /\ pc' = "crashed"
                    /\ idx' = idx
               ELSE /\ sess' = [sess EXCEPT ![a] = r.row]
                    /\ aborts' = aborts
                    /\ pc' = "batch"
                    /\ idx' = idx + 1
    /\ UNCHANGED <<db, batch, commits, cycle>>

\* main(), lines 199-202: transaction.commit() after the loop; a commit that
\* raises is followed by transaction.abort() and the exception leaves main.
Commit ==
    /\ pc = "batch"
    /\ LoopDone(idx, batch)
    /\ running = {}
    /\ \E ok \in BOOLEAN :
        IF ok
        THEN /\ db' = sess
             /\ sess' = sess
             /\ commits' = commits + 1
             /\ aborts' = aborts
             /\ pc' = "sleep"
        ELSE /\ db' = db
             /\ sess' = transaction_abort(db, sess)
             /\ commits' = commits
             /\ aborts' = aborts + 1
             /\ pc' = "crashed"
    /\ UNCHANGED <<item, pkg, trace, fault, tally, batch, idx, result, cycle,
                   running>>

\* main(), line 204: time.sleep(...), then the next iteration of while True.
\* What was observed of the cycle that ends is dropped.
Sleep ==
    /\ pc = "sleep"
    /\ cycle < MaxCycles
    /\ cycle' = cycle + 1
    /\ pc' = "poll"
    /\ batch' = <<>>
    /\ idx' = 1
    /\ item' = 0
    /\ pkg' = Unread
    /\ trace' = <<>>
    /\ fault' = "none"
    /\ tally' = [a \in Attempts |-> NoTally]
    /\ result' = [a \in Attempts |-> "none"]
    /\ UNCHANGED <<db, sess, commits, aborts, running>>

\* Another process (the validation side) flags an Attempt for checkout
\* before the daemon's next query, which sees the committed row.
RequestCheckout ==
    /\ pc = "poll"
    /\ \E a \in Attempts :
        /\ ~db[a].proceed_to_checkout
        /\ db' = [db EXCEPT ![a].proceed_to_checkout = TRUE]
        /\ sess' = [sess EXCEPT ![a].proceed_to_checkout = TRUE]
    /\ UNCHANGED <<item, pkg, trace, fault, tally, pc, batch, idx, result,
                   commits, aborts, cycle, running>>

\* ---- direct mode: --directory and --file
\* The environment of one package's procedure: the procedure has no
\* timestamp step.
PackageInputs == { in \in ProcedureInputs : in[1] # "timestamp" }

\* Faulty variant: an exception of the procedure leaves it.
checkout_procedure_by_package_fatal(p, shape, failAt, nIssues) ==
    [trace |-> <<>>, fault |-> "Exception", ended |-> "propagated"]

\* checkout_procedure_by_package(item): the remote calls it made and how it
\* ended, as for checkout_procedure_by_attempt.
checkout_procedure_by_package(p, shape, failAt, nIssues) ==
    IF failAt = "interrupt"
    THEN [trace |-> <<>>, fault |-> "KeyboardInterrupt",
          ended |-> ExceptException("KeyboardInterrupt")]
    ELSE
    LET up == upload_static_files(p, shape, failAt)
    IN  IF up.raised
        THEN [trace |-> up.trace, fault |-> "Exception",
              ended |-> ExceptException("Exception")]
        ELSE
        LET meta == upload_meta_front(p, up.uri_dict, failAt, nIssues)
        IN  IF meta.raised
            THEN [trace |-> up.trace \o meta.trace, fault |-> "Exception",
                  ended |-> ExceptException("Exception")]
            ELSE [trace |-> up.trace \o meta.trace, fault |-> "none",
                  ended |-> "ok"]

\* main() with --directory (the zip files of the directory, none to
\* MaxPackages of them) or --file (one package): the database may hold
\* Attempts flagged for checkout; no query is made.  Here batch is the list
\* "packages" and result the list of how each procedure ended.
InitDirect ==
    /\ db \in [Attempts -> {NewRow(p) : p \in BOOLEAN}]
    /\ sess = db
    /\ item = 0
    /\ pkg = Unread
    /\ trace = <<>>
    /\ fault = "none"
    /\ tally = [a \in Attempts |-> NoTally]
    /\ pc = "direct"
    /\ batch \in { [i \in 1..n |-> i] : n \in 0..MaxPackages }
    /\ idx = 1
    /\ result = <<>>
    /\ commits = 0
    /\ aborts = 0
    /\ cycle = 1
    /\ running = {}

\* main(), lines 208-209 and 213: checkout_procedure_by_package is called
\* for the next package; an exception that leaves it leaves main().
ProcessPackage ==
    /\ pc = "direct"
    /\ idx <= Len(batch)
    /\ \E in \in PackageInputs, shape \in PkgShapes :
        LET r == checkout_procedure_by_package(batch[idx], shape, in[1], in[2])
        IN  /\ item' = batch[idx]
            /\ pkg' = shape
            /\ trace' = r.trace
            /\ fault' = r.fault
            /\ result' = Append(result, r.ended)
            /\ IF r.ended = "propagated"
               THEN pc' = "crashed" /\ idx' = idx
               ELSE pc' = "direct" /\ idx' = idx + 1
    /\ UNCHANGED <<db, sess, tally, batch, commits, aborts, cycle, running>>

\* main(), after the last package: main() returns.
Exit ==
    /\ pc = "direct"
    /\ idx > Len(batch)
    /\ pc' = "done"
    /\ UNCHANGED <<db, sess, item, pkg, trace, fault, tally, batch, idx, result,
                   commits, aborts, cycle, running>>

\* ------------------------------------------------------- lib/notifier.py
Points == {"checkin", "validation", "checkout"}

NoUri == <<>>      \* attempt.checkin_uri is None

\* The resource ids the registry answers a post with.
ResourceIds == {1, 2}

\* tell(message, status, label): the notices told in this model.
Notices ==
    { [message |-> "foo", status |-> "ok", label |-> "bar"],
      [message |-> "no funding-group", status |-> "warning", label |-> None] }

\* models.Checkpoint(point), and its start(), end() and tell().
NewCheckpoint(point) ==
    [point |-> point, started_at |-> None, ended_at |-> None,
     messages |-> <<>>]
CheckpointStart(cp) == [cp EXCEPT !.started_at = "set"]
CheckpointEnd(cp) == [cp EXCEPT !.ended_at = "set"]
CheckpointTell(cp, notice) == [cp EXCEPT !.messages = Append(@, notice)]

Call(api, data, ok, id) == [api |-> api, data |-> data, ok |-> ok, id |-> id]

\* '/api/v1/checkins_articles/%s/' % resource_id, '/api/v1/checkins/%s/' % id
ResourceUri(collection, id) == <<"api", "v1", collection, id>>

\* auto_commit_or_rollback(method): what the wrapper adds to a method that
\* returned with the session in state d, commit succeeding or raising
\* IntegrityError.  No method of Notifier is decorated with it.
auto_commit_or_rollback(d, commitOk) ==
    IF ~d THEN [commits |-> 0, aborts |-> 0, raised |-> FALSE]
    ELSE IF commitOk THEN [commits |-> 1, aborts |-> 0, raised |-> FALSE]
    ELSE [commits |-> 0, aborts |-> 1, raised |-> TRUE]

\* Faulty variant: the toggle is not looked at.
Skipping_never(enabled) == FALSE

\* "if not self.manager_integration: logger.warning(...); return None", the
\* guard of the three _send_*_notification methods.
Skipping(enabled) == ~enabled

\* Faulty variant: the APIError of a post is not caught.
PostRaises_uncaught(ok) == ~ok

\* try: ....post(data) / except scieloapi.exceptions.APIError: logger.error:
\* whether the post's failure leaves the enclosing method.
PostRaises(ok) == FALSE

\* Faulty variant: the label of the notice is not passed on.
NoticeData_unlabelled(uri, point, message, status, label) ==
    [checkin |-> uri, stage |-> None, checkpoint |-> point,
     message |-> message, status |-> status]

\* _send_notice_notification: data (status is status.name, point is
\* checkpoint.point.name: the members are told by their names here).
NoticeData(uri, point, message, status, label) ==
    [checkin |-> uri, stage |-> label, checkpoint |-> point,
     message |-> message, status |-> status]

\* Faulty variant: no notice is sent.
_send_notice_notification_silent(uri, point, message, status, label, ok) ==
    [calls |-> <<>>, raised |-> FALSE]

\* _send_notice_notification(message, status, label)
_send_notice_notification(uri, point, message, status, label, ok) ==
    LET data == NoticeData(uri, point, message, status, label)
    IN  IF Skipping(manager_integration)
        THEN [calls |-> <<>>, raised |-> FALSE]
        ELSE [calls |-> << Call("notices.post", data, ok, 0) >>,
              raised |-> PostRaises(ok)]

\* Faulty variant: the payload reports the checkpoint's own lifecycle status.
CheckoutData_serv_end(uri, point) ==
    [checkin |-> uri, stage |-> "checkout", checkpoint |-> point,
     message |-> "checkout finished", status |-> "SERV_END"]

\* _send_checkout_notification: data
CheckoutData(uri, point) ==
    [checkin |-> uri, stage |-> "checkout", checkpoint |-> point,
     message |-> "checkout finished", status |-> "ok"]

\* _send_checkout_notification()
_send_checkout_notification(uri, point, ok) ==
    IF Skipping(manager_integration)
    THEN [calls |-> <<>>, raised |-> FALSE]
    ELSE IF point # "checkout"
    THEN [calls |-> <<>>, raised |-> TRUE]          \* AssertionError
    ELSE [calls |-> << Call("notices.post", CheckoutData(uri, point), ok, 0) >>,
          raised |-> PostRaises(ok)]

\* Faulty variant: the checkin record is posted whatever became of the article.
ArticlePosted_always(artOk) == TRUE

\* _send_checkin_notification: try: checkins_articles.post / except / else:
\* the else branch runs when the post did not raise.
ArticlePosted(artOk) == artOk

\* _send_checkin_notification(): in.artOk, in.chkOk say whether the two posts
\* succeed, in.artId, in.chkId are the resource ids they return.
_send_checkin_notification(uri, point, in) ==
    IF Skipping(manager_integration)
    THEN [calls |-> <<>>, raised |-> FALSE, uri |-> uri]
    ELSE IF point # "checkin"
    THEN [calls |-> <<>>, raised |-> TRUE, uri |-> uri]   \* AssertionError
    ELSE
    LET art == Call("checkins_articles.post", "data_article", in.artOk,
                    IF in.artOk THEN in.artId ELSE 0)
        chk == Call("checkins.post",
                    [attempt_ref |-> "attempt",
                     article |-> ResourceUri("checkins_articles", in.artId)],
                    in.chkOk, IF in.chkOk THEN in.chkId ELSE 0)
    IN  IF ~ArticlePosted(in.artOk)
        THEN [calls |-> << art >>, raised |-> FALSE, uri |-> uri]
        ELSE IF ~in.chkOk
        THEN [calls |-> << art, chk >>, raised |-> FALSE, uri |-> uri]
        ELSE [calls |-> << art, chk >>, raised |-> FALSE,
              uri |-> ResourceUri("checkins", in.chkId)]

\* What the registry does to the posts of one operation.
RemoteInputs ==
    [artOk : BOOLEAN, chkOk : BOOLEAN, noteOk : BOOLEAN, coOk : BOOLEAN,
     artId : ResourceIds, chkId : ResourceIds]

\* logger.error('Error posting data to Manager. Message: %s' % e): one record
\* for every post of the operation that failed.
ErrorLog(cs) ==
    LET errors == SelectSeq(cs, LAMBDA c : ~c.ok)
    IN  [i \in 1..Len(errors) |-> "Error posting data to Manager"]

\* Faulty variant: a failed post aborts the transaction.
AbortsOnError_each(cs) == Len(SelectSeq(cs, LAMBDA c : ~c.ok))

\* except scieloapi.exceptions.APIError as e: logger.error(...): the
\* transaction.abort() calls the handlers of the operation's posts make.
AbortsOnError(cs) == 0

OpRecord(name, point, nCheckin, nCheckout, raised, before, cs) ==
    [name |-> name, point |-> point, checkin_notifications |-> nCheckin,
     checkout_notifications |-> nCheckout,
     returned |-> IF raised THEN "raised" ELSE "normal",
     uri_before |-> before, dirtied |-> TRUE, commits |-> 0,
     aborts |-> AbortsOnError(cs),
     logged |-> ErrorLog(cs)]

NoOp ==
    [name |-> "none", point |-> None, checkin_notifications |-> 0,
     checkout_notifications |-> 0, returned |-> "normal",
     uri_before |-> NoUri, dirtied |-> FALSE, commits |-> 0, aborts |-> 0,
     logged |-> <<>>]

\* The Checkpoint rows of the Attempt when the program starts: none, or two
\* rows of one point left by two sessions that each found none and added one
\* (the state the MultipleResultsFound clause of the factory is written for).
InitialCheckpoints ==
    { <<>>, << NewCheckpoint("validation"), NewCheckpoint("validation") >> }

InitNotifier ==
    /\ manager_integration \in BOOLEAN
    /\ cps \in InitialCheckpoints
    /\ notifier = 0
    /\ checkin_uri = NoUri
    /\ dirty = FALSE
    /\ calls = <<>>
    /\ op = NoOp
    /\ nops = 0

\* Faulty variant: the lookup never finds a Checkpoint.
Found_none(rows, point) == {}

\* session.query(models.Checkpoint).filter(attempt).filter(point): the rows
\* the lookup matches, those added to the session and not yet committed
\* included (the query flushes the session first).
Found(rows, point) == { i \in 1..Len(rows) : rows[i].point = point }

\* except MultipleResultsFound as e: "#logger.error(e.message)" then pass:
\* what the clause writes to the log.
MultipleResultsFound_log == <<>>

\* create_checkpoint_notifier(config, point) and the factory it returns,
\* called for the Attempt: the Checkpoint is looked up with .one(), created
\* when there is none; Notifier.__init__ adds it to the session.  With more
\* than one match the except clause passes and "checkpoint" is unbound when
\* Notifier(checkpoint, ...) is evaluated.
Factory(point) ==
    /\ nops < MaxOps
    /\ nops' = nops + 1
    /\ LET found == Found(cps, point)
       IN  IF found = {}
           THEN /\ cps' = Append(cps, NewCheckpoint(point))
                /\ notifier' = Len(cps) + 1
                /\ dirty' = TRUE
                /\ op' = [OpRecord("factory", point, 0, 0, FALSE, checkin_uri,
                                   <<>>)
                            EXCEPT !.dirtied = TRUE]
           ELSE IF Cardinality(found) = 1
           THEN /\ cps' = cps
                /\ notifier' = CHOOSE i \in found : TRUE
                /\ dirty' = dirty
                /\ op' = [OpRecord("factory", point, 0, 0, FALSE, checkin_uri,
                                   <<>>)
                            EXCEPT !.dirtied = FALSE]
           ELSE /\ cps' = cps
                /\ notifier' = notifier
                /\ dirty' = dirty
                /\ op' = [OpRecord("factory", point, 0, 0, TRUE, checkin_uri,
                                   <<>>)
                            EXCEPT !.dirtied = FALSE,
                                   !.logged = MultipleResultsFound_log]
    /\ calls' = <<>>
    /\ UNCHANGED <<manager_integration, checkin_uri>>

\* Notifier.tell(message, status, label=None)
Tell(notice, in) ==
    /\ notifier # 0
    /\ nops < MaxOps
    /\ nops' = nops + 1
    /\ LET cp == cps[notifier]
           n  == _send_notice_notification(checkin_uri, cp.point,
                     notice.message, notice.status, notice.label, in.noteOk)
       IN  /\ cps' = [cps EXCEPT ![notifier] = CheckpointTell(cp, notice)]
           /\ calls' = n.calls
           /\ op' = OpRecord("tell", cp.point, 0, 0, n.raised, checkin_uri,
                             n.calls)
    /\ dirty' = TRUE
    /\ UNCHANGED <<manager_integration, notifier, checkin_uri>>

\* Faulty variant: every start() sends the checkin notification.
IsCheckin_any(point) == TRUE

\* self.checkpoint.point is models.Point.checkin
IsCheckin(point) == point = "checkin"

\* self.checkpoint.point is models.Point.checkout
IsCheckout(point) == point = "checkout"

\* Notifier.start()
Start(in) ==
    /\ notifier # 0
    /\ nops < MaxOps
    /\ nops' = nops + 1
    /\ LET cp == cps[notifier]
           ci == IF IsCheckin(cp.point)
                 THEN _send_checkin_notification(checkin_uri, cp.point, in)
                 ELSE [calls |-> <<>>, raised |-> FALSE, uri |-> checkin_uri]
           n  == IF ci.raised THEN [calls |-> <<>>, raised |-> TRUE]
                 ELSE _send_notice_notification(ci.uri, cp.point, "",
                          "SERV_BEGIN", None, in.noteOk)
       IN  /\ cps' = [cps EXCEPT ![notifier] = CheckpointStart(cp)]
           /\ checkin_uri' = ci.uri
           /\ calls' = ci.calls \o n.calls
           /\ op' = OpRecord("start", cp.point,
                             IF IsCheckin(cp.point) THEN 1 ELSE 0, 0,
                             n.raised, checkin_uri, ci.calls \o n.calls)
    /\ dirty' = TRUE
    /\ UNCHANGED <<manager_integration, notifier>>

\* Notifier.end()
End(in) ==
    /\ notifier # 0
    /\ nops < MaxOps
    /\ nops' = nops + 1
    /\ LET cp == cps[notifier]
           co == IF IsCheckout(cp.point)
                 THEN _send_checkout_notification(checkin_uri, cp.point, in.coOk)
                 ELSE [calls |-> <<>>, raised |-> FALSE]
           n  == IF co.raised THEN [calls |-> <<>>, raised |-> TRUE]
                 ELSE _send_notice_notification(checkin_uri, cp.point, "",
                          "SERV_END", None, in.noteOk)
       IN  /\ cps' = [cps EXCEPT ![notifier] = CheckpointEnd(cp)]
           /\ calls' = co.calls \o n.calls
           /\ op' = OpRecord("end", cp.point, 0,
                             IF IsCheckout(cp.point) THEN 1 ELSE 0,
                             n.raised, checkin_uri, co.calls \o n.calls)
    /\ dirty' = TRUE
    /\ UNCHANGED <<manager_integration, notifier, checkin_uri>>

\* ----------------------------------------------------------- validator.py
\* The ISSNs an ArticlePackage may carry: unset, malformed, well-formed.
WellFormedIssns == { "0042-9686", "1234-5679" }
Issns == { None, "0042-968X" } \cup WellFormedIssns

\* _issn_validator (utils.is_valid_issn): the format check.
is_valid_issn(issn) == issn \in WellFormedIssns

\* What journals.filter(limit=1, **criteria) and get_one make of a lookup:
\* a journal, ValueError (no journal matches), or a remote-API error.
LookupOutcomes == { "found", "ValueError", "APIError" }

Unbound == "unbound"     \* the local journal_data before any assignment

Lookup(criteria, issn, outcome) ==
    [criteria |-> criteria, issn |-> issn, outcome |-> outcome]

\* _fetch_journal_data(criteria) inside try / except ValueError:
\*   the value bound to journal_data, or "raise" when the error is not caught.
FetchOrNone(outcome) ==
    IF outcome = "found" THEN "journal"
    ELSE IF outcome = "ValueError" THEN None
    ELSE "raise"

\* Faulty variant: the electronic ISSN is looked up whatever the first lookup gave.
NotJournalData_always(jd) == "true"

\* "not journal_data": reading the local before it is bound raises
\* UnboundLocalError.
NotJournalData(jd) ==
    IF jd = Unbound THEN "raise"
    ELSE IF jd = None THEN "true"
    ELSE "false"

\* SetupPipe.transform(attempt) after pkg_analyzer.lock_package():
\*   the lookups made, the journal_data and is_valid it leaves, and how it
\*   ended: "returned", "UnboundLocalError" or "APIError".
SetupPipe_transform(att, out1, out2) ==
    LET pUsable == att.journal_pissn # None /\ is_valid_issn(att.journal_pissn)
        eUsable == att.journal_eissn # None /\ is_valid_issn(att.journal_eissn)
        jd1     == IF pUsable THEN FetchOrNone(out1) ELSE Unbound
        l1      == IF pUsable
                   THEN << Lookup("print_issn", att.journal_pissn, out1) >>
                   ELSE <<>>
        cond2   == IF eUsable THEN NotJournalData(jd1) ELSE "false"
        jd2     == IF cond2 = "true" THEN FetchOrNone(out2) ELSE jd1
        l2      == IF cond2 = "true"
                   THEN << Lookup("eletronic_issn", att.journal_eissn, out2) >>
                   ELSE <<>>
        Died(how, ls) ==
            [is_valid |-> att.is_valid, journal_data |-> Unbound,
             lookups |-> ls, ended |-> how]
    IN  IF jd1 = "raise" THEN Died("APIError", l1)
        ELSE IF cond2 = "raise" THEN Died("UnboundLocalError", l1)
        ELSE IF jd2 = "raise" THEN Died("APIError", l1 \o l2)
        ELSE IF NotJournalData(jd2) = "raise"
        THEN Died("UnboundLocalError", l1 \o l2)
        ELSE [is_valid     |-> IF NotJournalData(jd2) = "true" THEN FALSE
                               ELSE att.is_valid,
              journal_data |-> jd2,
              lookups      |-> l1 \o l2,
              ended        |-> "returned"]

STATUS_OK == "ok"
STATUS_WARNING == "warning"
STATUS_ERROR == "error"

\* What the package's XML holds: a funding-group element or none, and an ack
\* element whose text has a digit, one whose text has none, or no ack.
FundingGroups == { "absent", "present" }
Acks == { "absent", "number", "plain" }

\* The serialisation of the first funding-group / ack node.
Content(kind) == << "xml", kind >>

\* The description 'no funding-group and no ack'.
NoFundingNoAck == << "text", "no funding-group and no ack" >>

AttributeError == << "raise", "AttributeError" >>

\* etree.tostring(node), etree being the class
\* xml.etree.ElementTree.ElementTree, which has no attribute tostring: the
\* attribute lookup raises.
etree_tostring(content) == AttributeError

\* _contains_number(text), the function nested in validate():
\* any((True for n in xrange(10) if str(n) in text))
_contains_number(text) == text = Content("number")

\* FundingGroupValidationPipe.validate(item): [status, description], or the
\* exception that leaves it.  _contains_number is a local of validate; the
\* call self._contains_number(description) finds an attribute only when the
\* base class (vpipes.ValidationPipe) happens to provide one of that name,
\* taken then to do the same.
validate(funding, ack, inherited) ==
    IF funding # "absent"
    THEN LET description == etree_tostring(Content("funding-group"))
         IN  IF description = AttributeError THEN AttributeError
             ELSE << STATUS_OK, description >>
    ELSE
    LET description == IF ack # "absent" THEN etree_tostring(Content(ack))
                       ELSE NoFundingNoAck
    IN  IF description = AttributeError THEN AttributeError
        ELSE IF ~inherited THEN AttributeError
        ELSE << IF _contains_number(description) THEN STATUS_ERROR
                ELSE IF description # NoFundingNoAck
                     THEN STATUS_OK
                     ELSE STATUS_WARNING,
                description >>

NoVerdict == [funding |-> None, ack |-> None, out |-> <<>>]

NoAttempt ==
    [id |-> 0, journal_pissn |-> None, journal_eissn |-> None,
     is_valid |-> TRUE]

InitValidator ==
    /\ vpc = "idle"
    /\ attempt = NoAttempt
    /\ journal_data = Unbound
    /\ lookups = <<>>
    /\ ret = "none"
    /\ locked = {}
    /\ failed = {}
    /\ nitems = 0
    /\ verdict = NoVerdict

\* The pipeline takes the next message and SetupPipe.transform runs on its
\* Attempt: the package is locked first; an exception ends the run.
Setup ==
    /\ vpc = "idle"
    /\ nitems < MaxItems
    /\ nitems' = nitems + 1
    /\ \E pissn \in Issns, eissn \in Issns,
          out1 \in LookupOutcomes, out2 \in LookupOutcomes :
        LET att == [id |-> nitems + 1, journal_pissn |-> pissn,
                    journal_eissn |-> eissn, is_valid |-> TRUE]
            r   == SetupPipe_transform(att, out1, out2)
        IN  /\ attempt' = [att EXCEPT !.is_valid = r.is_valid]
            /\ journal_data' = r.journal_data
            /\ lookups' = r.lookups
            /\ ret' = r.ended
            /\ locked' = locked \cup {att.id}
            /\ vpc' = IF r.ended = "returned" THEN "setup" ELSE "raised"
    /\ verdict' = NoVerdict
    /\ UNCHANGED failed

\* Faulty variant: the archive is never marked as failed.
MarkedAsFailed_never(att) == FALSE

\* TearDownPipe.transform: if attempt.is_valid: ... else:
\* utils.mark_as_failed(attempt.filepath)
MarkedAsFailed(att) == ~att.is_valid

\* TearDownPipe.transform(item): pkg_analyzer.restore_perms() undoes
\* lock_package(), then the archive of an invalid Attempt is marked failed.
TearDown ==
    /\ vpc = "setup"
    /\ locked' = locked \ {attempt.id}
    /\ failed' = IF MarkedAsFailed(attempt) THEN failed \cup {attempt.id}
                 ELSE failed
    /\ vpc' = "idle"
    /\ UNCHANGED <<attempt, journal_data, lookups, ret, nitems, verdict>>

\* FundingGroupValidationPipe.validate(item) on the triple Setup returned.
Validate ==
    /\ vpc = "setup"
    /\ verdict = NoVerdict
    /\ \E funding \in FundingGroups, ack \in Acks, inherited \in BOOLEAN :
          verdict' = [funding |-> funding, ack |-> ack,
                      out |-> validate(funding, ack, inherited)]
    /\ UNCHANGED <<vpc, attempt, journal_data, lookups, ret, locked, failed,
                   nitems>>

checkoutVars ==
    <<db, sess, item, pkg, trace, fault, tally, pc, batch, idx, result, commits,
      aborts, cycle, running>>

notifierVars ==
    <<manager_integration, cps, notifier, checkin_uri, dirty, calls, op, nops>>

validatorVars ==
    <<vpc, attempt, journal_data, lookups, ret, locked, failed, nitems,
      verdict>>

vars == <<checkoutVars, notifierVars, validatorVars>>

\* A program that is not running: its variables stay as they are.
NotifierOff ==
    /\ manager_integration = TRUE
    /\ cps = <<>>
    /\ notifier = 0
    /\ checkin_uri = NoUri
    /\ dirty = FALSE
    /\ calls = <<>>
    /\ op = NoOp
    /\ nops = 0

ValidatorOff ==
    /\ vpc = "off"
    /\ attempt = NoAttempt
    /\ journal_data = Unbound
    /\ lookups = <<>>
    /\ ret = "none"
    /\ locked = {}
    /\ failed = {}
    /\ nitems = 0
    /\ verdict = NoVerdict

CheckoutOff ==
    /\ db = [a \in Attempts |-> NewRow(FALSE)]
    /\ sess = db
    /\ item = 0
    /\ pkg = Unread
    /\ trace = <<>>
    /\ fault = "none"
    /\ tally = [a \in Attempts |-> NoTally]
    /\ pc = "off"
    /\ batch = <<>>
    /\ idx = 1
    /\ result = [a \in Attempts |-> "none"]
    /\ commits = 0
    /\ aborts = 0
    /\ cycle = 1
    /\ running = {}

\* ---- the checkout daemon
Init == InitCheckout /\ NotifierOff /\ ValidatorOff

Next ==
    /\ Poll \/ Dispatch \/ ProcessItem \/ Commit \/ Sleep \/ RequestCheckout
    /\ UNCHANGED <<notifierVars, validatorVars>>

Spec == Init /\ [][Next]_vars

\* ---- the Notifiers of one Attempt
NotifierInit == InitNotifier /\ CheckoutOff /\ ValidatorOff

NotifierNext ==
    /\ \/ \E point \in Points : Factory(point)
       \/ \E notice \in Notices, in \in RemoteInputs : Tell(notice, in)
       \/ \E in \in RemoteInputs : Start(in)
       \/ \E in \in RemoteInputs : End(in)
    /\ UNCHANGED <<checkoutVars, validatorVars>>

SpecNotifier == NotifierInit /\ [][NotifierNext]_vars

\* ---- the validation pipeline
ValidatorInit == InitValidator /\ CheckoutOff /\ NotifierOff

ValidatorNext ==
    /\ Setup \/ Validate \/ TearDown
    /\ UNCHANGED <<checkoutVars, notifierVars>>

SpecValidator == ValidatorInit /\ [][ValidatorNext]_vars

\* ---- checkout.py in direct mode
DirectInit == InitDirect /\ NotifierOff /\ ValidatorOff

DirectNext ==
    /\ ProcessPackage \/ Exit
    /\ UNCHANGED <<notifierVars, validatorVars>>

SpecDirect == DirectInit /\ [][DirectNext]_vars

\* ------------------------------------------------------------------ claims
BatchSet == { batch[i] : i \in 1..Len(batch) }

\* The cycle has ended with the commit of a batch.
CycleCommitted == pc = "sleep" /\ batch # <<>>

\* An Attempt's uploads and its metadata post succeeded in this cycle.
Succeeded(a) == tally[a].uploaded >= 1 /\ tally[a].posted >= 1

\* In one procedure's calls every articles.post comes after the stored
\* xml, pdf and images uploads, and no upload follows it.
UploadThenPost(evs) ==
    \A i \in 1..Len(evs) :
        evs[i].call = "articles.post" =>
            /\ \A e \in {"xml", "pdf", "img"} :
                  \E j \in 1..(i - 1) :
                      evs[j].call = "send" /\ evs[j].ok /\ evs[j].arg[2] = e
            /\ \A j \in (i + 1)..Len(evs) : evs[j].call # "send"

\* C1: when every Attempt of a batch had its uploads and its metadata post
\* succeed, the cycle ends with every one of them not queued (in the session
\* and as committed), each having had exactly one upload sequence and
\* exactly one articles.post, the post after the uploads.
C1_BatchSuccess ==
    /\ UploadThenPost(trace)
    /\ (CycleCommitted /\ \A a \in BatchSet : Succeeded(a)) =>
          \A a \in BatchSet :
              /\ ~sess[a].queued_checkout
              /\ ~db[a].queued_checkout
              /\ tally[a].uploads = 1
              /\ tally[a].uploaded = 1
              /\ tally[a].posts = 1

C1_Witness ==
    /\ CycleCommitted
    /\ Len(batch) >= 2
    /\ \A a \in BatchSet : Succeeded(a)

\* C2: an Exception raised at any step of one Attempt's procedure is caught
\* in the procedure and never crashes main(); the Attempts of the batch that
\* come after it are processed and the batch is committed.
C2_Isolation ==
    /\ fault = "Exception" =>
          /\ result[item] = "caught"
          /\ (pc = "crashed" => idx > Len(batch))
    /\ pc = "batch" =>
          \A i \in 1..(idx - 1) : result[batch[i]] \in {"ok", "caught"}
    /\ CycleCommitted =>
          /\ commits >= 1
          /\ db = sess
          /\ \A a \in BatchSet : result[a] \in {"ok", "caught"}

C2_Witness ==
    /\ CycleCommitted
    /\ Len(batch) >= 2
    /\ result[batch[1]] = "caught"
    /\ db[batch[1]].queued_checkout
    /\ result[batch[2]] = "ok"
    /\ Succeeded(batch[2])


\* ---- Notifier
NotifierOps == {"tell", "start", "end"}

Posts(api) == { i \in 1..Len(calls) : calls[i].api = api }

FailedPosts(apis) ==
    { i \in 1..Len(calls) : calls[i].api \in apis /\ ~calls[i].ok }

\* C3 (as claimed): a tell, start or end that returns normally after it
\* dirtied the session has committed the transaction.
C3_CommitsOnReturn ==
    (op.name \in NotifierOps /\ op.returned = "normal" /\ op.dirtied) =>
        (op.commits = 1 /\ ~dirty)

\* C7: start() on a checkin Checkpoint makes exactly one checkin notification
\* attempt, start() on a validation or checkout Checkpoint makes none (and
\* posts nothing to checkins_articles or checkins).
C7_StartCheckinOnce ==
    op.name = "start" =>
        IF op.point = "checkin"
        THEN /\ op.checkin_notifications = 1
             /\ manager_integration =>
                   Cardinality(Posts("checkins_articles.post")) = 1
             /\ Cardinality(Posts("checkins.post")) <= 1
        ELSE /\ op.checkin_notifications = 0
             /\ Posts("checkins_articles.post") = {}
             /\ Posts("checkins.post") = {}

C7_Witness ==
    /\ op.name = "start"
    /\ op.point = "checkin"
    /\ Cardinality(Posts("checkins_articles.post")) = 1
    /\ Cardinality(Posts("checkins.post")) = 1

\* The notices.post calls of the last operation that carry the checkout
\* notification.
CheckoutPosts ==
    { i \in Posts("notices.post") : calls[i].data.message = "checkout finished" }

\* C8: end() on a checkout Checkpoint makes exactly one checkout notification
\* attempt, posting {checkin: the Attempt's checkin_uri, stage: checkout,
\* checkpoint: checkout, message: checkout finished, status: ok}; end() on
\* another Point makes none.
C8_EndCheckoutPayload ==
    op.name = "end" =>
        IF op.point = "checkout"
        THEN /\ op.checkout_notifications = 1
             /\ manager_integration =>
                   /\ CheckoutPosts = {1}
                   /\ calls[1].data =
                        [checkin |-> checkin_uri, stage |-> "checkout",
                         checkpoint |-> "checkout",
                         message |-> "checkout finished", status |-> "ok"]
        ELSE /\ op.checkout_notifications = 0
             /\ CheckoutPosts = {}

C8_Witness ==
    /\ op.name = "end"
    /\ op.point = "checkout"
    /\ CheckoutPosts = {1}
    /\ checkin_uri # NoUri
    /\ calls[1].data.checkin = checkin_uri

\* C9: checkins.post is issued only right after a checkins_articles.post
\* that succeeded, and refers to the article it created; checkin_uri changes
\* only to the uri of a checkin that was created; when either post fails,
\* start() goes on normally (to the lifecycle notice) and checkin_uri is as
\* it was.
C9_TwoPhaseCheckin ==
    /\ \A i \in Posts("checkins.post") :
          /\ i > 1
          /\ calls[i - 1].api = "checkins_articles.post"
          /\ calls[i - 1].ok
          /\ calls[i].data.article =
                ResourceUri("checkins_articles", calls[i - 1].id)
    /\ checkin_uri # op.uri_before =>
          \E i \in Posts("checkins.post") :
              /\ calls[i].ok
              /\ checkin_uri = ResourceUri("checkins", calls[i].id)
    /\ FailedPosts({"checkins_articles.post", "checkins.post"}) # {} =>
          /\ op.returned = "normal"
          /\ checkin_uri = op.uri_before
          /\ calls[Len(calls)].api = "notices.post"
          /\ calls[Len(calls)].data.status = "SERV_BEGIN"

C9_Witness ==
    /\ op.name = "start"
    /\ Posts("checkins_articles.post") = {1}
    /\ FailedPosts({"checkins.post"}) = {2}
    /\ checkin_uri = NoUri
    /\ op.returned = "normal"

\* C10: tell(), start() and end() return normally when a notices.post they
\* made raised a remote-API error.
C10_NoticeErrorCaught ==
    (op.name \in NotifierOps /\ FailedPosts({"notices.post"}) # {}) =>
        op.returned = "normal"

C10_Witness ==
    /\ op.name = "end"
    /\ op.point = "checkout"
    /\ FailedPosts({"notices.post"}) = {1, 2}
    /\ op.returned = "normal"


\* ---- Setup / TearDown
Usable(issn) == issn # None /\ is_valid_issn(issn)

SetupRan == ret # "none"

\* C4 (as claimed): for an Attempt whose print and electronic ISSNs are each
\* unset or malformed, Setup returns, with is_valid false and journal_data
\* None in the triple.
C4_UnusableIssnsDegrade ==
    (SetupRan /\ ~Usable(attempt.journal_pissn)
              /\ ~Usable(attempt.journal_eissn)) =>
        /\ ret = "returned"
        /\ ~attempt.is_valid
        /\ journal_data = None

\* C5 (as claimed): no package lock outlives the processing of its Attempt:
\* when the pipeline is between Attempts, or has ended, no lock is held.
C5_LockReleased == vpc \in {"idle", "raised"} => locked = {}

LookupsOf(criteria) ==
    { i \in 1..Len(lookups) : lookups[i].criteria = criteria }

\* C6: Setup makes at most one lookup per ISSN type, the print-ISSN lookup
\* before the electronic one, and the electronic one only when the
\* print-ISSN lookup was not made or resolved no journal.
C6_LookupOrder ==
    /\ Cardinality(LookupsOf("print_issn")) <= 1
    /\ Cardinality(LookupsOf("eletronic_issn")) <= 1
    /\ \A i \in LookupsOf("print_issn"), j \in LookupsOf("eletronic_issn") :
          i < j
    /\ LookupsOf("eletronic_issn") # {} =>
          \A i \in LookupsOf("print_issn") : lookups[i].outcome # "found"

C6_Witness ==
    /\ ret = "returned"
    /\ Len(lookups) = 2
    /\ lookups[1].criteria = "print_issn"
    /\ lookups[1].outcome = "ValueError"
    /\ lookups[2].criteria = "eletronic_issn"
    /\ lookups[2].outcome = "found"
    /\ journal_data = "journal"


\* C11: with manager_integration disabled no tell, start or end contacts the
\* registry, each of them returns normally, and checkin_uri is never set.
C11_DisabledIsSilent ==
    ~manager_integration =>
        /\ calls = <<>>
        /\ checkin_uri = NoUri
        /\ op.name \in NotifierOps => op.returned = "normal"

C11_Witness ==
    /\ ~manager_integration
    /\ op.name = "start"
    /\ op.point = "checkin"
    /\ op.checkin_notifications = 1
    /\ op.returned = "normal"
    /\ calls = <<>>


\* The Checkpoint rows of a point.
CheckpointsOf(rows, point) == { i \in 1..Len(rows) : rows[i].point = point }

FactoryStep == nops' = nops + 1 /\ op'.name = "factory"

\* C12: a factory call never adds a Checkpoint to a point that has one, so a
\* table without duplicates stays without duplicates; a call for a point
\* with no Checkpoint creates one and binds the Notifier to it, a call for a
\* point with one Checkpoint leaves the table alone and binds the Notifier to
\* that same Checkpoint.
C12_LookupOrCreate ==
    [][FactoryStep =>
        LET before == CheckpointsOf(cps, op'.point)
            after  == CheckpointsOf(cps', op'.point)
        IN  /\ \A p \in Points \ {op'.point} :
                   CheckpointsOf(cps', p) = CheckpointsOf(cps, p)
            /\ before = {} =>
                   /\ Cardinality(after) = 1
                   /\ notifier' \in after
            /\ before # {} => cps' = cps
            /\ Cardinality(before) = 1 => notifier' \in before]_vars

C12_Witness ==
    /\ op.name = "factory"
    /\ op.returned = "normal"
    /\ ~op.dirtied
    /\ notifier # 0
    /\ cps[notifier].point = op.point
    /\ cps[notifier].started_at = "set"
    /\ Cardinality(CheckpointsOf(cps, op.point)) = 1

\* C13: a factory call whose lookup matches more than one Checkpoint writes
\* the duplicate condition to the log.
C13_DuplicateSurfaced ==
    (op.name = "factory" /\ Cardinality(CheckpointsOf(cps, op.point)) > 1)
        => op.logged # <<>>


\* ---- Checkout daemon: transactions, retries and ordering
\* C14: an exception that leaves a procedure or the commit aborts the
\* transaction (the session is back at what the database holds, which the
\* cycle has not changed), no commit is made in that cycle, and main() ends
\* there; a step never both commits and aborts.
C14_AbortOnUnhandled ==
    /\ [](pc = "crashed" =>
            /\ aborts = 1
            /\ sess = db
            /\ commits < cycle
            /\ \A a \in BatchSet : db[a].checkout_started_at # Now(cycle))
    /\ [](aborts > 0 => pc = "crashed")
    /\ [][/\ pc = "crashed" => UNCHANGED vars
          /\ pc' = "crashed" /\ pc # "crashed" =>
                /\ db' = db
                /\ sess' = db
                /\ aborts' = aborts + 1
                /\ commits' = commits
          /\ commits' # commits =>
                /\ aborts' = aborts
                /\ pc' = "sleep"]_vars

C14_Witness ==
    /\ pc = "crashed"
    /\ fault = "KeyboardInterrupt"
    /\ Len(batch) = 2
    /\ idx = 2
    /\ result[batch[1]] = "ok"
    /\ aborts = 1
    /\ sess = db

\* C15 (as claimed): an abort of the session happens after all items of the
\* batch have finished their procedure.
C15_AbortAfterAllItems == aborts > 0 => idx > Len(batch)

\* C15 (amended): the procedure of an item never commits or aborts; a commit
\* is made in the loop after all items have finished, exactly one per cycle
\* that had eligible Attempts and no unhandled exception, none in a cycle
\* with nothing eligible; an abort is made in the loop where the exception
\* arrives, which for one leaving a procedure is before the later items run.
C15_LoopOwnsTransaction ==
    [][/\ pc = "batch" /\ pc' = "batch" =>
            /\ commits' = commits
            /\ aborts' = aborts
            /\ db' = db
       /\ commits' # commits =>
            /\ pc = "batch"
            /\ batch # <<>>
            /\ idx > Len(batch)
            /\ \A a \in BatchSet : result[a] \in {"ok", "caught"}
            /\ commits' = commits + 1
       /\ pc = "batch" /\ pc' = "sleep" => commits' = commits + 1
       /\ pc = "poll" /\ pc' = "sleep" =>
            /\ batch' = <<>>
            /\ commits' = commits
            /\ aborts' = aborts
       /\ aborts' # aborts =>
            /\ pc = "batch"
            /\ pc' = "crashed"
            /\ aborts' = aborts + 1
            /\ idx <= Len(batch) =>
                  /\ result'[batch[idx]] = "propagated"
                  /\ \A i \in (idx + 1)..Len(batch) :
                        result'[batch[i]] = "none"]_vars

C15_Witness ==
    /\ pc = "crashed"
    /\ aborts = 1
    /\ Len(batch) = 2
    /\ idx = 1
    /\ result[batch[1]] = "propagated"
    /\ result[batch[2]] = "none"

\* C17 (as claimed): when issues.filter yields no issue or more than one, no
\* article metadata record is posted for the item.
C17_ExactlyOneIssue ==
    \A i \in 1..Len(trace) :
        (trace[i].call = "issues.filter" /\ trace[i].ok /\ trace[i].arg # 1)
            => Count(trace, "articles.post", FALSE) = 0

Failed(a) == result[a] = "caught"

JustPolled == (pc = "batch" /\ idx = 1) \/ (pc = "sleep" /\ batch = <<>>)

\* C19 (as claimed): an Attempt whose checkout failed and whose
\* queued_checkout flag is still set is selected by the poll that follows.
C19_FailedIsReselected ==
    JustPolled => \A a \in Attempts : db[a].queued_checkout => a \in BatchSet

\* C19 (amended): a poll selects exactly the Attempts flagged for checkout
\* whose checkout_started_at is unset, whatever queued_checkout says.  An
\* Attempt that failed after its timestamp was taken is never selected
\* again; one that failed before is selected by the next poll.  No Attempt
\* is in a batch twice, so none is retried within the cycle.
C19_SelectionByStartedAt ==
    /\ JustPolled =>
          \A a \in Attempts :
              a \in BatchSet <=> /\ db[a].proceed_to_checkout
                                 /\ db[a].checkout_started_at = None
    /\ \A a \in BatchSet : db[a].checkout_started_at \in {None, Now(cycle)}
    /\ \A i, j \in 1..Len(batch) : batch[i] = batch[j] => i = j
    /\ \A a \in Attempts : tally[a].uploads <= 1

C19_Witness ==
    /\ cycle = 2
    /\ pc = "batch"
    /\ idx = 1
    /\ \E a \in Attempts :
          /\ db[a].queued_checkout
          /\ db[a].checkout_started_at = Now(1)
          /\ a \notin BatchSet

\* C20 (as claimed): once a procedure of the batch has been dispatched every
\* Attempt of the batch is marked queued, but for those that succeeded.
C20_AllMarkedBeforeDispatch ==
    (pc = "batch" /\ idx > 1) =>
        \A a \in BatchSet : sess[a].queued_checkout \/ result[a] = "ok"

\* C20 (amended): the Attempts of a batch are taken one after the other,
\* each marked queued immediately before its own procedure: while the batch
\* is processed the Attempts already taken are marked (and unmarked again by
\* a success), the others are as the query found them; the commit comes after
\* the procedure of the last one returned.
C20_MarkedOneByOne ==
    /\ pc = "batch" =>
          \A i \in 1..Len(batch) :
              LET a == batch[i]
              IN  /\ i < idx =>
                        /\ result[a] \in {"ok", "caught"}
                        /\ sess[a].queued_checkout <=> result[a] = "caught"
                  /\ i >= idx =>
                        /\ result[a] = "none"
                        /\ a \notin running => sess[a] = db[a]
                        /\ a \in running =>
                              /\ i = idx
                              /\ sess[a].queued_checkout
                              /\ sess[a].checkout_started_at = None
    /\ CycleCommitted =>
          \A a \in BatchSet :
              /\ result[a] \in {"ok", "caught"}
              /\ db[a].queued_checkout <=> result[a] = "caught"

C20_Witness ==
    /\ pc = "batch"
    /\ Len(batch) = 2
    /\ idx = 2
    /\ result[batch[1]] = "caught"
    /\ sess[batch[1]].queued_checkout
    /\ ~sess[batch[2]].queued_checkout
    /\ result[batch[2]] = "none"


\* ---- Validator: TearDown
\* TearDown has run on the current Attempt.
TornDown == vpc = "idle" /\ nitems > 0

\* The print ISSN is well-formed and unknown to the registry, and there is
\* no electronic ISSN.
UnknownPrintOnly ==
    /\ SetupRan
    /\ attempt.journal_pissn \in WellFormedIssns
    /\ attempt.journal_eissn = None
    /\ lookups # <<>>
    /\ lookups[1].outcome = "ValueError"

\* C16: after Setup then TearDown the archive's permissions are restored and
\* the archive is marked failed exactly when is_valid is false; TearDown runs
\* whenever Setup returned.  For a well-formed print ISSN unknown to the
\* registry and no electronic ISSN, Setup returns the triple with is_valid
\* false and journal_data None, and TearDown marks the archive failed.
C16_TearDownMarksFailed ==
    /\ vpc = "setup" => ENABLED TearDown
    /\ TornDown =>
          /\ ret = "returned"
          /\ attempt.id \notin locked
          /\ attempt.id \in failed <=> ~attempt.is_valid
    /\ UnknownPrintOnly =>
          /\ ret = "returned"
          /\ lookups = << Lookup("print_issn", attempt.journal_pissn,
                                  "ValueError") >>
          /\ ~attempt.is_valid
          /\ journal_data = None
          /\ TornDown => attempt.id \in failed

C16_Witness ==
    /\ TornDown
    /\ UnknownPrintOnly
    /\ ~attempt.is_valid
    /\ attempt.id \in failed
    /\ attempt.id \notin locked


LocatorsBefore(i, a, ext) ==
    { trace[j].arg : j \in { k \in 1..(i - 1) :
                                /\ trace[k].call = "send"
                                /\ trace[k].ok
                                /\ trace[k].arg[1] = a
                                /\ trace[k].arg[2] = ext } }

PostsIn(evs) == { i \in 1..Len(evs) : evs[i].call = "articles.post" }

\* C22: an articles.post of an item comes after a completed xml, pdf and
\* images upload of that item, no upload of the item failed, and its
\* xml_url, pdf_url and images_url are locators those uploads returned; for
\* a package without an xml or without a pdf member nothing is posted and
\* the procedure does not clear queued_checkout (it stays set in the session
\* unless a later abort of the transaction undoes the whole batch).
C22_UploadBeforePost ==
    /\ \A i \in PostsIn(trace) :
          /\ trace[i].arg.xml_url \in LocatorsBefore(i, item, "xml")
          /\ trace[i].arg.pdf_url \in LocatorsBefore(i, item, "pdf")
          /\ trace[i].arg.images_url \in LocatorsBefore(i, item, "img")
          /\ \A j \in 1..(i - 1) : trace[j].ok
    /\ (item # 0 /\ (pkg.xml = 0 \/ pkg.pdf = 0)) =>
          /\ PostsIn(trace) = {}
          /\ result[item] # "ok"
          /\ (result[item] = "caught" /\ pc # "crashed") =>
                sess[item].queued_checkout

C22_Witness ==
    /\ item # 0
    /\ pkg.xml = 2
    /\ PostsIn(trace) # {}
    /\ \A i \in PostsIn(trace) : trace[i].arg.xml_url = Locator(item, "xml", 2)


\* ---- Notifier: lifecycle notices, tell, and the transaction
\* The notices.post calls of the last operation that carry the given status.
NoticesOf(status) ==
    { i \in Posts("notices.post") : calls[i].data.status = status }

\* C23: with notifications enabled a start() posts exactly one SERV_BEGIN
\* notice and an end() exactly one SERV_END notice, whatever the Point; it
\* is the last call of the operation, names the Checkpoint's point and the
\* Attempt's checkin_uri, and the Checkpoint is timestamped.  On a checkin
\* start() it follows the checkin posts and carries the uri of the checkin
\* just created.
C23_LifecycleNotice ==
    (manager_integration /\ op.name \in {"start", "end"}) =>
        LET status == IF op.name = "start" THEN "SERV_BEGIN" ELSE "SERV_END"
            other  == IF op.name = "start" THEN "SERV_END" ELSE "SERV_BEGIN"
        IN  /\ NoticesOf(status) = {Len(calls)}
            /\ NoticesOf(other) = {}
            /\ calls[Len(calls)].data =
                  [checkin |-> checkin_uri, stage |-> None,
                   checkpoint |-> op.point, message |-> "", status |-> status]
            /\ cps[notifier].point = op.point
            /\ op.name = "start" => cps[notifier].started_at = "set"
            /\ op.name = "end" => cps[notifier].ended_at = "set"
            /\ \A i \in Posts("checkins.post") :
                  /\ i < Len(calls)
                  /\ calls[i].ok =>
                        calls[Len(calls)].data.checkin =
                            ResourceUri("checkins", calls[i].id)

C23_Witness ==
    /\ manager_integration
    /\ op.name = "start"
    /\ op.point = "checkin"
    /\ Len(calls) = 3
    /\ calls[2].api = "checkins.post"
    /\ calls[2].ok
    /\ op.uri_before = NoUri
    /\ calls[3].data.status = "SERV_BEGIN"
    /\ calls[3].data.checkin = ResourceUri("checkins", calls[2].id)

TellStep == nops' = nops + 1 /\ op'.name = "tell"

\* C24: a tell(message, status, label) appends exactly one notice, the one
\* told, to its Checkpoint and changes no other Checkpoint; it makes one
\* notices.post carrying the same message, status, label and the
\* Checkpoint's point when notifications are enabled and no call otherwise;
\* it returns normally and the notice is recorded whether the post failed
\* or was skipped.
C24_TellRecordsAndMirrors ==
    [][TellStep =>
        LET before == cps[notifier].messages
            after  == cps'[notifier].messages
            told   == after[Len(after)]
        IN  /\ notifier' = notifier
            /\ Len(cps') = Len(cps)
            /\ \A i \in 1..Len(cps) : i # notifier => cps'[i] = cps[i]
            /\ Len(after) = Len(before) + 1
            /\ SubSeq(after, 1, Len(before)) = before
            /\ told \in Notices
            /\ op'.returned = "normal"
            /\ Len(calls') <= 1
            /\ manager_integration <=> Len(calls') = 1
            /\ \A i \in 1..Len(calls') :
                  /\ calls'[i].api = "notices.post"
                  /\ calls'[i].data =
                        [checkin |-> checkin_uri, stage |-> told.label,
                         checkpoint |-> cps[notifier].point,
                         message |-> told.message, status |-> told.status]]_vars

C24_Witness ==
    /\ op.name = "tell"
    /\ manager_integration
    /\ FailedPosts({"notices.post"}) = {1}
    /\ calls[1].data.stage = "bar"
    /\ Len(cps[notifier].messages) = 2
    /\ cps[notifier].messages[2].label = "bar"

AllPosts == {"checkins_articles.post", "checkins.post", "notices.post"}

\* C25: an operation of the Notifier whose posts to the registry failed makes
\* no transaction.abort(); no operation of the Notifier aborts at all.
C25_FailureNeverAborts ==
    /\ FailedPosts(AllPosts) # {} =>
          /\ op.aborts = 0
          /\ op.returned = "normal"
          /\ op.name \in NotifierOps => dirty
    /\ op.aborts = 0

C25_Witness ==
    /\ op.name = "start"
    /\ op.point = "checkin"
    /\ FailedPosts(AllPosts) = {1, 2}
    /\ op.aborts = 0
    /\ dirty
    /\ cps[notifier].started_at = "set"


\* ---- Direct mode
\* C26: in direct mode no Attempt row changes in the database or in the
\* session, no commit and no abort is made, an Exception in one package's
\* procedure is caught there and the packages after it are processed: main()
\* ends early only on an exception that is no Exception.
C26_DirectBypassesQueue ==
    /\ [](/\ sess = db
          /\ commits = 0
          /\ aborts = 0
          /\ Len(result) <= Len(batch)
          /\ (pc = "direct" /\ idx <= Len(batch)) => ENABLED ProcessPackage
          /\ fault = "Exception" =>
                /\ result[Len(result)] = "caught"
                /\ pc # "crashed"
          /\ pc = "crashed" => fault = "KeyboardInterrupt"
          /\ pc = "done" =>
                /\ Len(result) = Len(batch)
                /\ \A i \in 1..Len(result) : result[i] \in {"ok", "caught"})
    /\ [][db' = db /\ sess' = sess]_vars

C26_Witness ==
    /\ pc = "done"
    /\ Len(batch) = 2
    /\ result = << "caught", "ok" >>
    /\ \E a \in Attempts :
          /\ db[a].proceed_to_checkout
          /\ ~db[a].queued_checkout
          /\ db[a].checkout_started_at = None


\* ---- Funding group validation
\* What the docstring of validate() promises for a package.
Documented(funding, ack) ==
    IF funding = "present" THEN << STATUS_OK, Content("funding-group") >>
    ELSE IF ack = "number" THEN << STATUS_ERROR, Content("number") >>
    ELSE IF ack = "plain" THEN << STATUS_OK, Content("plain") >>
    ELSE << STATUS_OK, NoFundingNoAck >>

\* C27 (as claimed): validate() returns what its docstring states for each
\* of the four cases, and never a lifecycle status.
C27_ValidateAsDocumented ==
    verdict # NoVerdict =>
        /\ verdict.out = Documented(verdict.funding, verdict.ack)
        /\ verdict.out[1] \notin {"SERV_BEGIN", "SERV_END"}

====
